---- MODULE Spec2Model ----
(***************************************************************************)
(* Model of the helmet-detection service: the settings sanitizer           *)
(* (lib/utils), the detection client and the POST /api/detect orchestrator *)
(* (app/api/detect/route.tsx), over a store of Project, Image and Person   *)
(* rows.                                                                   *)
(*                                                                         *)
(* Numbers are fixed-point integers counting thousandths, so 0.8 is 800    *)
(* and 5000 is 5000000.  JavaScript values are records [t, n, s]: t is the *)
(* type tag, n the number (or 0/1 of a boolean, or the identity of an      *)
(* array), s the characters of a string.                                   *)
(***************************************************************************)
EXTENDS Integers, Sequences, FiniteSets, TLC

(* ------------------------------------------------------------------ *)
(* Bounds of the model                                                  *)
(* ------------------------------------------------------------------ *)
MaxImages == 2
MaxPersons == 2
MaxGroups == 4
MaxResults == 3
MaxSends == 2
MaxClientImages == 2
MaxProjects == 2
MaxRows == 2

(* ------------------------------------------------------------------ *)
(* JavaScript values                                                    *)
(* ------------------------------------------------------------------ *)
Thousandths(whole, frac) == whole * 1000 + frac

Num(x) == [t |-> "number", n |-> x, s |-> <<>>]
NaN == [t |-> "NaN", n |-> 0, s |-> <<>>]
Undefined == [t |-> "undefined", n |-> 0, s |-> <<>>]
Null == [t |-> "null", n |-> 0, s |-> <<>>]
Bool(b) == [t |-> "boolean", n |-> IF b THEN 1 ELSE 0, s |-> <<>>]
Str(chars) == [t |-> "string", n |-> 0, s |-> chars]
Arr(k) == [t |-> "array", n |-> k, s |-> <<>>]

True == Bool(TRUE)
False == Bool(FALSE)

IsNumber(x) == x.t = "number"

Whitespace == {" ", "\t", "\n"}
Digits == {"0", "1", "2", "3", "4", "5", "6", "7", "8", "9"}

DigitVal(c) ==
  CASE c = "0" -> 0 [] c = "1" -> 1 [] c = "2" -> 2 [] c = "3" -> 3
    [] c = "4" -> 4 [] c = "5" -> 5 [] c = "6" -> 6 [] c = "7" -> 7
    [] c = "8" -> 8 [] c = "9" -> 9

RECURSIVE TrimStart(_)
TrimStart(cs) ==
  IF cs # <<>> /\ Head(cs) \in Whitespace THEN TrimStart(Tail(cs)) ELSE cs

RECURSIVE TrimEnd(_)
TrimEnd(cs) ==
  IF cs # <<>> /\ cs[Len(cs)] \in Whitespace
  THEN TrimEnd(SubSeq(cs, 1, Len(cs) - 1))
  ELSE cs

Trim(cs) == TrimEnd(TrimStart(cs))

RECURSIVE DigitsValue(_)
DigitsValue(cs) ==
  IF cs = <<>> THEN 0
  ELSE 10 * DigitsValue(SubSeq(cs, 1, Len(cs) - 1)) + DigitVal(cs[Len(cs)])

AllDigits(cs) == \A k \in 1..Len(cs) : cs[k] \in Digits

(* The value of a decimal numeral "ddd" or "ddd.fff" (at most three     *)
(* fraction digits are representable); anything else is NaN.            *)
StringToNumber(chars) ==
  LET cs == Trim(chars)
      dots == {k \in 1..Len(cs) : cs[k] = "."}
  IN IF cs = <<>> THEN Num(0)
     ELSE IF dots = {} /\ AllDigits(cs) THEN Num(Thousandths(DigitsValue(cs), 0))
     ELSE IF Cardinality(dots) = 1
       THEN LET d == CHOOSE k \in dots : TRUE
                whole == SubSeq(cs, 1, d - 1)
                frac == SubSeq(cs, d + 1, Len(cs))
                pad == frac \o SubSeq(<<"0", "0", "0">>, 1, 3 - Len(frac))
            IN IF AllDigits(whole) /\ AllDigits(frac) /\ Len(frac) <= 3
                  /\ Len(whole) + Len(frac) > 0
               THEN Num(Thousandths(DigitsValue(whole), DigitsValue(pad)))
               ELSE NaN
     ELSE NaN

(* Number(value).  The arrays of the model are bounding boxes of four  *)
(* numbers, which convert to NaN.                                       *)
ToNumber(x) ==
  CASE x.t = "number" -> x
    [] x.t = "NaN" -> NaN
    [] x.t = "undefined" -> NaN
    [] x.t = "null" -> Num(0)
    [] x.t = "boolean" -> Num(Thousandths(x.n, 0))
    [] x.t = "string" -> StringToNumber(x.s)
    [] x.t = "array" -> NaN
    [] x.t = "object" -> NaN

(* Boolean(value) *)
Truthy(x) ==
  CASE x.t = "number" -> x.n # 0
    [] x.t = "boolean" -> x.n = 1
    [] x.t = "string" -> x.s # <<>>
    [] x.t = "array" -> TRUE
    [] x.t = "object" -> TRUE
    [] OTHER -> FALSE

(* a && b *)
JsAnd(a, b) == IF Truthy(a) THEN b ELSE a

(* a >= t, for a number t: false when a converts to NaN *)
JsGe(a, t) == LET x == ToNumber(a) IN IsNumber(x) /\ x.n >= t

(* a / d for a whole number d *)
JsDiv(a, d) == LET x == ToNumber(a) IN IF IsNumber(x) THEN Num(x.n \div d) ELSE NaN

Max(a, b) == IF a >= b THEN a ELSE b
Min(a, b) == IF a <= b THEN a ELSE b

(* ------------------------------------------------------------------ *)
(* Settings sanitizer                                                   *)
(* ------------------------------------------------------------------ *)
NumericFields ==
  {"confidence", "geminiWeight", "grokWeight", "maxFileSize", "maxWidth", "maxHeight"}
StringFields == {"projectTag", "geminiPrompt", "grokPrompt", "outputFormat"}
SettingsFields == NumericFields \cup StringFields

Chars(str) ==
  CASE str = "API" -> <<"A", "P", "I">>
    [] str = "default" -> <<"d", "e", "f", "a", "u", "l", "t">>
    [] str = "pdf" -> <<"p", "d", "f">>

DEFAULT_API_SETTINGS ==
  [projectTag |-> Str(Chars("API")),
   confidence |-> Num(Thousandths(0, 800)),
   geminiWeight |-> Num(Thousandths(1, 0)),
   geminiPrompt |-> Str(Chars("default")),
   grokWeight |-> Num(Thousandths(0, 0)),
   grokPrompt |-> Str(Chars("default")),
   maxFileSize |-> Num(Thousandths(5000, 0)),
   maxWidth |-> Num(Thousandths(1920, 0)),
   maxHeight |-> Num(Thousandths(1080, 0)),
   outputFormat |-> Str(Chars("pdf"))]

(* The [min, max] arguments sanitizeSettings passes to clampNumber. *)
FieldMin(f) ==
  CASE f = "confidence" -> Thousandths(0, 500)
    [] f = "geminiWeight" -> Thousandths(0, 0)
    [] f = "grokWeight" -> Thousandths(0, 0)
    [] f = "maxFileSize" -> Thousandths(50, 0)
    [] f = "maxWidth" -> Thousandths(300, 0)
    [] f = "maxHeight" -> Thousandths(200, 0)

FieldMax(f) ==
  CASE f = "confidence" -> Thousandths(1, 0)
    [] f = "geminiWeight" -> Thousandths(1, 0)
    [] f = "grokWeight" -> Thousandths(1, 0)
    [] f = "maxFileSize" -> Thousandths(15000, 0)
    [] f = "maxWidth" -> Thousandths(15000, 0)
    [] f = "maxHeight" -> Thousandths(15000, 0)

Letters == {"a", "d", "e", "f", "l", "p", "t", "u", "A", "I", "P", "S", "Z"}
StringAllowed == Letters \cup Digits \cup {"_", "-"} \cup Whitespace

RECURSIVE Filter(_, _)
Filter(cs, keep) ==
  IF cs = <<>> THEN <<>>
  ELSE (IF Head(cs) \in keep THEN <<Head(cs)>> ELSE <<>>) \o Filter(Tail(cs), keep)

sanitizeString(value, defaultValue) ==
  IF value.t # "string" THEN defaultValue
  ELSE LET sanitized == Trim(Filter(value.s, StringAllowed))
       IN IF sanitized = <<>> THEN defaultValue ELSE Str(sanitized)

clampNumberDefaultOutOfRange(value, min, max, defaultValue) ==
  LET num == ToNumber(value)
  IN IF ~IsNumber(num) \/ num.n < min \/ num.n > max THEN defaultValue
     ELSE num

(* clampNumber without the Math.min / Math.max. *)
clampNumberNoClamp(value, min, max, defaultValue) ==
  LET num == ToNumber(value)
  IN IF ~IsNumber(num) THEN defaultValue ELSE num

clampNumber(value, min, max, defaultValue) ==
  LET num == ToNumber(value)
  IN IF ~IsNumber(num) THEN defaultValue
     ELSE Num(Min(Max(num.n, min), max))

(* formData.get("settings"): kind is "absent", "file" or "string"; a     *)
(* string carries what JSON.parse makes of it: json is "invalid" (it     *)
(* throws), "null", "number", "boolean", "string", "array" or "object",  *)
(* and obj                                                               *)
(* holds the members of an object (Undefined for a member left out).     *)
NoMembers == [f \in SettingsFields |-> Undefined]

ParsedSettings(settingsString) ==
  IF settingsString.kind = "string" /\ settingsString.json = "object"
  THEN settingsString.obj
  ELSE NoMembers

(* JSON.parse outside a try block: unparseable text throws as well. *)
SettingsThrowsUncaught(settingsString) ==
  settingsString.kind = "string" /\ settingsString.json \in {"null", "invalid"}

(* Reading a property of null throws a TypeError. *)
SettingsThrows(settingsString) ==
  settingsString.kind = "string" /\ settingsString.json = "null"

sanitizeSettings(settingsString, defaultSettings) ==
  IF SettingsThrows(settingsString) THEN [threw |-> TRUE, value |-> NoMembers]
  ELSE LET settings == ParsedSettings(settingsString)
       IN [threw |-> FALSE,
           value |->
             [f \in SettingsFields |->
               IF f \in StringFields
               THEN sanitizeString(settings[f], defaultSettings[f])
               ELSE clampNumber(settings[f], FieldMin(f), FieldMax(f),
                                defaultSettings[f])]]

(* ------------------------------------------------------------------ *)
(* Detection client                                                     *)
(* ------------------------------------------------------------------ *)
(* What the external model does for one image.  call: "bufferRejects"   *)
(* (image.arrayBuffer() rejects), "rejects" (generateContent rejects)   *)
(* or "resolves".  text: "empty" (no text), "invalid" (no JSON can be   *)
(* parsed out of it), "null" (JSON null), "scalar" (a JSON number,      *)
(* string or array), "object" (a JSON object without a persons array)   *)
(* or "persons" (a JSON object with a persons array).  An entry of the  *)
(* persons array is a record of the six GeminiPerson members, Undefined *)
(* for a member the entry lacks (all six for a null or scalar entry).   *)
PersonMembers ==
  {"person_id", "personConfidence", "helmetConfidence", "hasHelmet", "personBox",
   "helmetBox"}

NoResponse == [call |-> "none", text |-> "empty", persons |-> <<>>]
Response(call, text, persons) == [call |-> call, text |-> text, persons |-> persons]

(* requestGem returning the parsed persons as the model numbered them. *)
requestGemKeepIds(resp) ==
  IF resp.call # "resolves" \/ resp.text \in {"empty", "invalid", "null"}
  THEN [threw |-> TRUE, hasPersons |-> FALSE, persons |-> <<>>]
  ELSE IF resp.text = "persons"
  THEN [threw |-> FALSE, hasPersons |-> TRUE, persons |-> resp.persons]
  ELSE [threw |-> FALSE, hasPersons |-> FALSE, persons |-> <<>>]

(* requestGem: JSON.parse of the matched text, then person_id := index. *)
requestGem(resp) ==
  IF resp.call # "resolves" \/ resp.text \in {"empty", "invalid", "null"}
  THEN [threw |-> TRUE, hasPersons |-> FALSE, persons |-> <<>>]
  ELSE IF resp.text = "persons"
  THEN [threw |-> FALSE, hasPersons |-> TRUE,
        persons |-> [k \in 1..Len(resp.persons) |->
                      [resp.persons[k] EXCEPT !.person_id = Num(Thousandths(k - 1, 0))]]]
  ELSE [threw |-> FALSE, hasPersons |-> FALSE, persons |-> <<>>]

(* The map callback keeping the model's helmetBox whatever the verdict. *)
mapPersonKeepBox(person, confidenceThreshold) ==
  LET helmetConfidence == JsDiv(person.helmetConfidence, 100)
      hasHelmet == JsAnd(person.hasHelmet,
                         Bool(JsGe(helmetConfidence, confidenceThreshold.n)))
  IN [personID |-> person.person_id,
      personConfidence |-> JsDiv(person.personConfidence, 100),
      helmetConfidence |-> helmetConfidence,
      hasHelmet |-> hasHelmet,
      personBox |-> person.personBox,
      helmetBox |-> person.helmetBox]

(* The map callback comparing with > instead of >=. *)
mapPersonStrict(person, confidenceThreshold) ==
  LET helmetConfidence == JsDiv(person.helmetConfidence, 100)
      hasHelmet == JsAnd(person.hasHelmet,
                         Bool(IsNumber(helmetConfidence)
                              /\ helmetConfidence.n > confidenceThreshold.n))
  IN [personID |-> person.person_id,
      personConfidence |-> JsDiv(person.personConfidence, 100),
      helmetConfidence |-> helmetConfidence,
      hasHelmet |-> hasHelmet,
      personBox |-> person.personBox,
      helmetBox |-> IF Truthy(hasHelmet) THEN person.helmetBox ELSE Null]

(* The map callback deciding the verdict by the confidence alone. *)
mapPersonConfidenceOnly(person, confidenceThreshold) ==
  LET helmetConfidence == JsDiv(person.helmetConfidence, 100)
      hasHelmet == Bool(JsGe(helmetConfidence, confidenceThreshold.n))
  IN [personID |-> person.person_id,
      personConfidence |-> JsDiv(person.personConfidence, 100),
      helmetConfidence |-> helmetConfidence,
      hasHelmet |-> hasHelmet,
      personBox |-> person.personBox,
      helmetBox |-> IF Truthy(hasHelmet) THEN person.helmetBox ELSE Null]

(* The callback of response.persons.map in detectHelmetInImage. *)
mapPerson(person, confidenceThreshold) ==
  LET helmetConfidence == JsDiv(person.helmetConfidence, 100)
      wasHelmetDetected == person.hasHelmet
      hasHelmet == JsAnd(wasHelmetDetected,
                         Bool(JsGe(helmetConfidence, confidenceThreshold.n)))
      helmetBox == IF Truthy(hasHelmet) THEN person.helmetBox ELSE Null
  IN [personID |-> person.person_id,
      personConfidence |-> JsDiv(person.personConfidence, 100),
      helmetConfidence |-> helmetConfidence,
      hasHelmet |-> hasHelmet,
      personBox |-> person.personBox,
      helmetBox |-> helmetBox]

(* The try block of detectHelmetInImage. *)
detectTry(resp, confidenceThreshold) ==
  IF resp.call = "bufferRejects" THEN [threw |-> TRUE, people |-> <<>>]
  ELSE LET response == requestGem(resp)
       IN IF response.threw THEN [threw |-> TRUE, people |-> <<>>]
          ELSE IF ~response.hasPersons THEN [threw |-> FALSE, people |-> <<>>]
          ELSE [threw |-> FALSE,
                people |-> [k \in 1..Len(response.persons) |->
                             mapPerson(response.persons[k], confidenceThreshold)]]

detectHelmetInImageNoCatch(resp, confidenceThreshold) ==
  detectTry(resp, confidenceThreshold)

(* detectHelmetInImage: the try block, and [] from the catch block. *)
detectHelmetInImage(resp, confidenceThreshold) ==
  LET tried == detectTry(resp, confidenceThreshold)
  IN IF tried.threw THEN [threw |-> FALSE, people |-> <<>>] ELSE tried

(* ------------------------------------------------------------------ *)
(* State                                                                *)
(* ------------------------------------------------------------------ *)
VARIABLES
  pc,               \* POST: "idle", "processing" or "responded"
  formData,         \* the multipart form of the request, until POST has read it
  settings,         \* POST: const settings
  images,           \* POST: const images
  projectId,        \* POST: const projectId (0 before createProject)
  store,            \* the rows of the projects, images and people tables
  lastId,           \* the last autoincrement id per table
  files,            \* per image index: the files written to public/images
  savePc,           \* per image index: position of the save path
  saveResult,       \* per image index: saveResult (id 0: null)
  detPc,            \* per image index: position of the detect path
  modelResponse,    \* per image index: what the external model answered
  detectionResult,  \* per image index: detectionResult
  imageResults,     \* per image index: the per-image result object
  createPersonCalls,\* per image index: number of createPerson calls made
  response,         \* the NextResponse sent
  detIn,            \* detection client on its own: the model's answer
  detThreshold,     \* detection client on its own: confidenceThreshold
  detOut,           \* detection client on its own: what the call did
  sanIn,            \* sanitizer on its own: the settings form field
  sanOut,           \* sanitizer on its own: what the call did
  extIn,            \* extractor on its own: the form's image groups
  extOut,           \* extractor on its own: what the call did
  sumIn,            \* summary on its own: imageResults
  sumOut,           \* summary on its own: what the computation gave
  clientPc,         \* client: position of sendToApi
  clientImages,     \* client: the images state of the page
  isSending,        \* client: the isSending state
  processingProjects, \* client: the processingProjects state
  processingId,     \* client: const processingId of the running call
  sentImages,       \* client: the images the running call captured
  fetchOutcome,     \* client: how the request to /api/detect settled
  toast,            \* client: the last toast shown
  sends,            \* client: number of sendToApi calls made
  delStore,         \* gateway on its own: the rows of the three tables
  delBefore,        \* gateway on its own: the rows before any delete
  delDeleted,       \* gateway on its own: ids passed to deleteProject
  nameIn,           \* naming on its own: clock and tag of two requests
  nameOut           \* naming on its own: the names the requests got

orchVars ==
  <<pc, formData, settings, images, projectId, store, lastId, files, savePc,
    saveResult, detPc, modelResponse, detectionResult, imageResults,
    createPersonCalls, response>>
detVars == <<detIn, detThreshold, detOut>>
sanVars == <<sanIn, sanOut>>
extVars == <<extIn, extOut>>
sumVars == <<sumIn, sumOut>>
delVars == <<delStore, delBefore, delDeleted>>
nameVars == <<nameIn, nameOut>>
clientVars ==
  <<clientPc, clientImages, isSending, processingProjects, processingId, sentImages,
    fetchOutcome, toast, sends>>
vars == <<orchVars, detVars, sanVars, extVars, sumVars, clientVars, delVars, nameVars>>

Indices == 0..(MaxImages - 1)

(* ------------------------------------------------------------------ *)
(* Image extractor                                                      *)
(* ------------------------------------------------------------------ *)
(* groups[k] describes the form entries with suffix k-1: "absent" (no   *)
(* image_N entry), "files" (image_N and thumb_N are Files), "noThumb"   *)
(* (thumb_N is missing or a string) or "notFile" (image_N is a string). *)
GroupKinds == {"absent", "files", "noThumb", "notFile"}

RECURSIVE extractFromSkipGaps(_, _)
extractFromSkipGaps(groups, index) ==
  IF index + 1 > Len(groups) THEN <<>>
  ELSE (IF groups[index + 1] = "files" THEN <<[formIndex |-> index]>> ELSE <<>>)
       \o extractFromSkipGaps(groups, index + 1)

RECURSIVE extractFromStopAtInvalid(_, _)
extractFromStopAtInvalid(groups, index) ==
  IF index + 1 > Len(groups) \/ groups[index + 1] # "files" THEN <<>>
  ELSE <<[formIndex |-> index]>> \o extractFromStopAtInvalid(groups, index + 1)

RECURSIVE extractFrom(_, _)
extractFrom(groups, index) ==
  IF index + 1 > Len(groups) \/ groups[index + 1] = "absent" THEN <<>>
  ELSE (IF groups[index + 1] = "files" THEN <<[formIndex |-> index]>> ELSE <<>>)
       \o extractFrom(groups, index + 1)

extractImagesFromFormData(form) == extractFrom(form.groups, 0)

(* ------------------------------------------------------------------ *)
(* Persistence gateway                                                  *)
(* ------------------------------------------------------------------ *)
ProjectRow(id, projectName, projectSettings) ==
  [id |-> id, projectName |-> projectName, settings |-> projectSettings, status |-> 0]

ImageRow(id, projectID, fileName) ==
  [id |-> id, projectID |-> projectID, fileName |-> fileName]

PersonRow(id, imageID, person) ==
  [id |-> id, imageID |-> imageID, personID |-> person.personID,
   personConfidence |-> person.personConfidence,
   helmetConfidence |-> person.helmetConfidence,
   hasHelmet |-> person.hasHelmet, helmetBox |-> person.helmetBox]

(* Insert the persons of `people` whose positions are in `ok`, in order, *)
(* with consecutive ids after `last`; the others fail (null).            *)
RECURSIVE insertPersons(_, _, _, _, _)
insertPersons(people, k, ok, imageID, last) ==
  IF k > Len(people) THEN <<>>
  ELSE IF k \in ok
  THEN <<PersonRow(last + 1, imageID, people[k])>>
       \o insertPersons(people, k + 1, ok, imageID, last + 1)
  ELSE insertPersons(people, k + 1, ok, imageID, last)

Range(seq) == {seq[k] : k \in 1..Len(seq)}

(* ------------------------------------------------------------------ *)
(* POST /api/detect                                                     *)
(* ------------------------------------------------------------------ *)
generateProjectName(now, projectTag) == [stamp |-> now, tag |-> projectTag]

FileName(projectName, index) == [projectName |-> projectName, index |-> index]

NoProjectName == generateProjectName(0, Str(<<>>))
NoImage == ImageRow(0, 0, FileName(NoProjectName, 0))
NoForm == [parsed |-> FALSE, settings |-> [kind |-> "absent", json |-> "invalid",
                                            obj |-> NoMembers],
           groups |-> <<>>]

NoResult ==
  [done |-> FALSE, index |-> 0, success |-> FALSE, imageId |-> 0,
   fileName |-> FileName(NoProjectName, 0), peopleDetected |-> 0, people |-> <<>>,
   error |-> ""]

FailedResult(index, error) ==
  [NoResult EXCEPT !.done = TRUE, !.index = index, !.error = error]

SuccessResult(index, image, personResults) ==
  [done |-> TRUE, index |-> index, success |-> TRUE, imageId |-> image.id,
   fileName |-> image.fileName, peopleDetected |-> Len(personResults),
   people |-> personResults, error |-> ""]

NoSummary ==
  [totalImages |-> 0, successfulImages |-> 0, failedImages |-> 0,
   totalPeopleDetected |-> 0]

NotSent ==
  [status |-> 0, error |-> "", success |-> FALSE, projectId |-> 0,
   summary |-> NoSummary, results |-> <<>>]

ErrorResponse(status, error) == [NotSent EXCEPT !.status = status, !.error = error]

RECURSIVE SumPeople(_, _)
SumPeople(results, k) ==
  IF k > Len(results) THEN 0
  ELSE (IF results[k].success THEN results[k].peopleDetected ELSE 0)
       + SumPeople(results, k + 1)

(* The summary counting every image as successful. *)
SuccessResponseAllSucceed(pid, n, results) ==
  [status |-> 200, error |-> "", success |-> TRUE, projectId |-> pid,
   summary |-> [totalImages |-> n, successfulImages |-> n, failedImages |-> 0,
                totalPeopleDetected |-> SumPeople(results, 1)],
   results |-> results]

SuccessResponse(pid, n, results) ==
  LET successfulImages == Cardinality({k \in 1..Len(results) : results[k].success})
  IN [status |-> 200, error |-> "", success |-> TRUE, projectId |-> pid,
      summary |-> [totalImages |-> n, successfulImages |-> successfulImages,
                   failedImages |-> n - successfulImages,
                   totalPeopleDetected |-> SumPeople(results, 1)],
      results |-> results]

Seconds == {0}

Active == {i \in Indices : i < Len(images)}

StartIgnoringCreateFailure ==
  /\ pc = "idle"
  /\ \E now \in Seconds, created \in BOOLEAN :
       LET sanitized == sanitizeSettings(formData.settings, DEFAULT_API_SETTINGS)
           extracted == extractImagesFromFormData(formData)
           projectName == generateProjectName(now, sanitized.value.projectTag)
           id == lastId.projects + 1
       IN IF ~formData.parsed \/ sanitized.threw
          THEN /\ pc' = "responded"
               /\ response' = ErrorResponse(500, "Failed to process request")
               /\ UNCHANGED <<settings, images, projectId, store, lastId, savePc, detPc>>
          ELSE IF extracted = <<>>
          THEN /\ pc' = "responded"
               /\ response' = ErrorResponse(400, "No images provided")
               /\ settings' = sanitized.value
               /\ UNCHANGED <<images, projectId, store, lastId, savePc, detPc>>
          ELSE IF ~created
          THEN /\ pc' = "processing"
               /\ settings' = sanitized.value
               /\ images' = extracted
               /\ savePc' = [i \in Indices |-> IF i < Len(extracted) THEN "fs" ELSE "off"]
               /\ detPc' = [i \in Indices |-> IF i < Len(extracted) THEN "call" ELSE "off"]
               /\ UNCHANGED <<projectId, store, lastId, response>>
          ELSE /\ pc' = "processing"
               /\ settings' = sanitized.value
               /\ images' = extracted
               /\ projectId' = id
               /\ store' = [store EXCEPT !.projects =
                              @ \cup {ProjectRow(id, projectName, sanitized.value)}]
               /\ lastId' = [lastId EXCEPT !.projects = id]
               /\ savePc' = [i \in Indices |-> IF i < Len(extracted) THEN "fs" ELSE "off"]
               /\ detPc' = [i \in Indices |-> IF i < Len(extracted) THEN "call" ELSE "off"]
               /\ UNCHANGED response
  /\ formData' = NoForm
  /\ UNCHANGED <<files, saveResult, modelResponse, detectionResult, imageResults,
                 createPersonCalls, detVars, sanVars, extVars, sumVars, clientVars, delVars, nameVars>>

StartCreatesProjectFirst ==
  /\ pc = "idle"
  /\ \E now \in Seconds, created \in BOOLEAN :
       LET sanitized == sanitizeSettings(formData.settings, DEFAULT_API_SETTINGS)
           extracted == extractImagesFromFormData(formData)
           projectName == generateProjectName(now, sanitized.value.projectTag)
           id == lastId.projects + 1
       IN IF ~formData.parsed \/ sanitized.threw
          THEN /\ pc' = "responded"
               /\ response' = ErrorResponse(500, "Failed to process request")
               /\ UNCHANGED <<settings, images, projectId, store, lastId, savePc, detPc>>
          ELSE IF extracted = <<>>
          THEN /\ pc' = "responded"
               /\ response' = ErrorResponse(400, "No images provided")
               /\ settings' = sanitized.value
               /\ store' = IF created
                           THEN [store EXCEPT !.projects =
                                   @ \cup {ProjectRow(id, projectName, sanitized.value)}]
                           ELSE store
               /\ lastId' = IF created THEN [lastId EXCEPT !.projects = id] ELSE lastId
               /\ UNCHANGED <<images, projectId, savePc, detPc>>
          ELSE IF ~created
          THEN /\ pc' = "responded"
               /\ response' = ErrorResponse(500, "Failed to create project")
               /\ settings' = sanitized.value
               /\ images' = extracted
               /\ UNCHANGED <<projectId, store, lastId, savePc, detPc>>
          ELSE /\ pc' = "processing"
               /\ settings' = sanitized.value
               /\ images' = extracted
               /\ projectId' = id
               /\ store' = [store EXCEPT !.projects =
                              @ \cup {ProjectRow(id, projectName, sanitized.value)}]
               /\ lastId' = [lastId EXCEPT !.projects = id]
               /\ savePc' = [i \in Indices |-> IF i < Len(extracted) THEN "fs" ELSE "off"]
               /\ detPc' = [i \in Indices |-> IF i < Len(extracted) THEN "call" ELSE "off"]
               /\ UNCHANGED response
  /\ formData' = NoForm
  /\ UNCHANGED <<files, saveResult, modelResponse, detectionResult, imageResults,
                 createPersonCalls, detVars, sanVars, extVars, sumVars, clientVars, delVars, nameVars>>

(* POST up to the start of the per-image work: read the form, sanitize   *)
(* the settings, extract the images, create the project.                 *)
Start ==
  /\ pc = "idle"
  /\ \E now \in Seconds, created \in BOOLEAN :
       LET sanitized == sanitizeSettings(formData.settings, DEFAULT_API_SETTINGS)
           extracted == extractImagesFromFormData(formData)
           projectName == generateProjectName(now, sanitized.value.projectTag)
           id == lastId.projects + 1
       IN IF ~formData.parsed \/ sanitized.threw
          THEN /\ pc' = "responded"
               /\ response' = ErrorResponse(500, "Failed to process request")
               /\ UNCHANGED <<settings, images, projectId, store, lastId, savePc, detPc>>
          ELSE IF extracted = <<>>
          THEN /\ pc' = "responded"
               /\ response' = ErrorResponse(400, "No images provided")
               /\ settings' = sanitized.value
               /\ UNCHANGED <<images, projectId, store, lastId, savePc, detPc>>
          ELSE IF ~created
          THEN /\ pc' = "responded"
               /\ response' = ErrorResponse(500, "Failed to create project")
               /\ settings' = sanitized.value
               /\ images' = extracted
               /\ UNCHANGED <<projectId, store, lastId, savePc, detPc>>
          ELSE /\ pc' = "processing"
               /\ settings' = sanitized.value
               /\ images' = extracted
               /\ projectId' = id
               /\ store' = [store EXCEPT !.projects =
                              @ \cup {ProjectRow(id, projectName, sanitized.value)}]
               /\ lastId' = [lastId EXCEPT !.projects = id]
               /\ savePc' = [i \in Indices |-> IF i < Len(extracted) THEN "fs" ELSE "off"]
               /\ detPc' = [i \in Indices |-> IF i < Len(extracted) THEN "call" ELSE "off"]
               /\ UNCHANGED response
  /\ formData' = NoForm
  /\ UNCHANGED <<files, saveResult, modelResponse, detectionResult, imageResults,
                 createPersonCalls, detVars, sanVars, extVars, sumVars, clientVars, delVars, nameVars>>

CurrentProjectName ==
  (CHOOSE p \in store.projects : p.id = projectId).projectName

(* saveImageToFileSystem(projectName, index, image, thumb) settles:     *)
(* both files written and success, or its catch block and no success.   *)
SaveFile(i) ==
  /\ pc = "processing"
  /\ i \in Active
  /\ savePc[i] = "fs"
  /\ \E written \in BOOLEAN :
       /\ files' = IF written THEN files \cup {FileName(CurrentProjectName, i)} ELSE files
       /\ savePc' = [savePc EXCEPT ![i] = IF written THEN "db" ELSE "fsFailed"]
  /\ UNCHANGED <<pc, formData, settings, images, projectId, store, lastId, saveResult,
                 detPc, modelResponse, detectionResult, imageResults,
                 createPersonCalls, response, detVars, sanVars, extVars, sumVars, clientVars, delVars, nameVars>>

(* The rest of the save path: null when the files were not written,      *)
(* otherwise createImage, which inserts the row or returns null.         *)
SaveRow(i) ==
  /\ pc = "processing"
  /\ i \in Active
  /\ savePc[i] \in {"db", "fsFailed"}
  /\ \E inserted \in BOOLEAN :
       LET id == lastId.images + 1
           dbImage == ImageRow(id, projectId, FileName(CurrentProjectName, i))
       IN IF savePc[i] = "fsFailed" \/ ~inserted
          THEN /\ saveResult' = [saveResult EXCEPT ![i] = NoImage]
               /\ UNCHANGED <<store, lastId>>
          ELSE /\ saveResult' = [saveResult EXCEPT ![i] = dbImage]
               /\ store' = [store EXCEPT !.images = @ \cup {dbImage}]
               /\ lastId' = [lastId EXCEPT !.images = id]
  /\ savePc' = [savePc EXCEPT ![i] = "done"]
  /\ UNCHANGED <<pc, formData, settings, images, projectId, files, detPc,
                 modelResponse, detectionResult, imageResults, createPersonCalls,
                 response, detVars, sanVars, extVars, sumVars, clientVars, delVars, nameVars>>

(* Persons and answers of the external model used for the requests. *)
GeminiPerson(hasHelmet, helmetConfidence, helmetBox, personConfidence) ==
  [person_id |-> Num(Thousandths(7, 0)), personConfidence |-> personConfidence,
   helmetConfidence |-> helmetConfidence, hasHelmet |-> hasHelmet,
   personBox |-> Arr(1), helmetBox |-> helmetBox]

HelmetAt85 == GeminiPerson(True, Num(Thousandths(85, 0)), Arr(2), Num(Thousandths(95, 0)))
BareHeadWithBox ==
  GeminiPerson(False, Num(Thousandths(90, 0)), Arr(3), Num(Thousandths(90, 0)))

RequestResponses ==
  {Response("rejects", "empty", <<>>),
   Response("resolves", "invalid", <<>>),
   Response("resolves", "persons", <<HelmetAt85>>),
   Response("resolves", "persons", <<BareHeadWithBox, HelmetAt85>>)}

(* detectHelmetInImage(image, thumb, projectId, index, settings.confidence) *)
(* settles.                                                                 *)
Detect(i) ==
  /\ pc = "processing"
  /\ i \in Active
  /\ detPc[i] = "call"
  /\ \E resp \in RequestResponses :
       /\ modelResponse' = [modelResponse EXCEPT ![i] = resp]
       /\ detectionResult' =
            [detectionResult EXCEPT
               ![i] = detectHelmetInImage(resp, settings.confidence)]
  /\ detPc' = [detPc EXCEPT ![i] = "done"]
  /\ UNCHANGED <<pc, formData, settings, images, projectId, store, lastId, files,
                 savePc, saveResult, imageResults, createPersonCalls, response,
                 detVars, sanVars, extVars, sumVars, clientVars, delVars, nameVars>>

(* The inner Promise.all has settled for image i: both paths fulfilled,  *)
(* or the detect path rejected (Promise.all rejects at once).            *)
JoinReady(i) ==
  /\ detPc[i] = "done"
  /\ detectionResult[i].threw \/ savePc[i] = "done"
  /\ ~imageResults[i].done

(* What follows the inner Promise.all with the save check left out. *)
JoinWithoutSaveCheck(i) ==
  /\ pc = "processing"
  /\ i \in Active
  /\ JoinReady(i)
  /\ \E ok \in SUBSET (1..Len(detectionResult[i].people)) :
       LET personResults ==
             insertPersons(detectionResult[i].people, 1, ok, saveResult[i].id,
                           lastId.people)
       IN /\ store' = [store EXCEPT !.people = @ \cup Range(personResults)]
          /\ lastId' = [lastId EXCEPT !.people = @ + Len(personResults)]
          /\ createPersonCalls' =
               [createPersonCalls EXCEPT ![i] = Len(detectionResult[i].people)]
          /\ imageResults' =
               [imageResults EXCEPT ![i] = SuccessResult(i, saveResult[i], personResults)]
  /\ UNCHANGED <<pc, formData, settings, images, projectId, files, savePc, saveResult,
                 detPc, modelResponse, detectionResult, response, detVars, sanVars, extVars, sumVars, clientVars, delVars, nameVars>>

(* What follows the inner Promise.all with the save check inverted. *)
JoinInverted(i) ==
  /\ pc = "processing"
  /\ i \in Active
  /\ JoinReady(i)
  /\ imageResults' =
       [imageResults EXCEPT
          ![i] = IF saveResult[i].id # 0 THEN FailedResult(i, "Failed to save image")
                 ELSE SuccessResult(i, saveResult[i], <<>>)]
  /\ UNCHANGED <<pc, formData, settings, images, projectId, store, lastId, files,
                 savePc, saveResult, detPc, modelResponse, detectionResult,
                 createPersonCalls, response, detVars, sanVars, extVars, sumVars, clientVars, delVars, nameVars>>

(* What follows the inner Promise.all when one createPerson returning   *)
(* null fails the whole image.                                          *)
JoinFailsOnPersonFailure(i) ==
  /\ pc = "processing"
  /\ i \in Active
  /\ JoinReady(i)
  /\ IF detectionResult[i].threw
     THEN /\ imageResults' =
               [imageResults EXCEPT ![i] = FailedResult(i, "error.message")]
          /\ UNCHANGED <<store, lastId, createPersonCalls>>
     ELSE IF saveResult[i].id = 0
     THEN /\ imageResults' =
               [imageResults EXCEPT ![i] = FailedResult(i, "Failed to save image")]
          /\ UNCHANGED <<store, lastId, createPersonCalls>>
     ELSE \E ok \in SUBSET (1..Len(detectionResult[i].people)) :
            LET personResults ==
                  insertPersons(detectionResult[i].people, 1, ok, saveResult[i].id,
                                lastId.people)
            IN /\ store' = [store EXCEPT !.people = @ \cup Range(personResults)]
               /\ lastId' = [lastId EXCEPT !.people = @ + Len(personResults)]
               /\ createPersonCalls' =
                    [createPersonCalls EXCEPT ![i] = Len(detectionResult[i].people)]
               /\ imageResults' =
                    [imageResults EXCEPT
                       ![i] = IF Len(personResults) < Len(detectionResult[i].people)
                              THEN FailedResult(i, "Failed to save person")
                              ELSE SuccessResult(i, saveResult[i], personResults)]
  /\ UNCHANGED <<pc, formData, settings, images, projectId, files, savePc, saveResult,
                 detPc, modelResponse, detectionResult, response, detVars, sanVars, extVars, sumVars, clientVars, delVars, nameVars>>

(* What follows the inner Promise.all for image i: the catch block when  *)
(* it rejected; the failure record when saveResult is null; otherwise    *)
(* createPerson for every detection (each insert may return null) and    *)
(* the success record.                                                   *)
Join(i) ==
  /\ pc = "processing"
  /\ i \in Active
  /\ JoinReady(i)
  /\ IF detectionResult[i].threw
     THEN /\ imageResults' =
               [imageResults EXCEPT ![i] = FailedResult(i, "error.message")]
          /\ UNCHANGED <<store, lastId, createPersonCalls>>
     ELSE IF saveResult[i].id = 0
     THEN /\ imageResults' =
               [imageResults EXCEPT ![i] = FailedResult(i, "Failed to save image")]
          /\ UNCHANGED <<store, lastId, createPersonCalls>>
     ELSE \E ok \in SUBSET (1..Len(detectionResult[i].people)) :
            LET personResults ==
                  insertPersons(detectionResult[i].people, 1, ok, saveResult[i].id,
                                lastId.people)
            IN /\ store' = [store EXCEPT !.people = @ \cup Range(personResults)]
               /\ lastId' = [lastId EXCEPT !.people = @ + Len(personResults)]
               /\ createPersonCalls' =
                    [createPersonCalls EXCEPT ![i] = Len(detectionResult[i].people)]
               /\ imageResults' =
                    [imageResults EXCEPT
                       ![i] = SuccessResult(i, saveResult[i], personResults)]
  /\ UNCHANGED <<pc, formData, settings, images, projectId, files, savePc, saveResult,
                 detPc, modelResponse, detectionResult, response, detVars, sanVars, extVars, sumVars, clientVars, delVars, nameVars>>

(* The response with the results collected last image first. *)
RespondReversed ==
  /\ pc = "processing"
  /\ \A i \in Active : imageResults[i].done
  /\ pc' = "responded"
  /\ response' = SuccessResponse(projectId, Len(images),
                                 [k \in 1..Len(images) |-> imageResults[Len(images) - k]])
  /\ UNCHANGED <<formData, settings, images, projectId, store, lastId, files, savePc,
                 saveResult, detPc, modelResponse, detectionResult, imageResults,
                 createPersonCalls, detVars, sanVars, extVars, sumVars, clientVars, delVars, nameVars>>

(* The response sent as soon as one image has its result. *)
RespondAfterFirstResult ==
  /\ pc = "processing"
  /\ \E i \in Active : imageResults[i].done
  /\ pc' = "responded"
  /\ response' = SuccessResponse(projectId, Len(images),
                                 [k \in 1..Len(images) |-> imageResults[k - 1]])
  /\ UNCHANGED <<formData, settings, images, projectId, store, lastId, files, savePc,
                 saveResult, detPc, modelResponse, detectionResult, imageResults,
                 createPersonCalls, detVars, sanVars, extVars, sumVars, clientVars, delVars, nameVars>>

(* The outer Promise.all has resolved: summary and JSON response. *)
Respond ==
  /\ pc = "processing"
  /\ \A i \in Active : imageResults[i].done
  /\ pc' = "responded"
  /\ response' = SuccessResponse(projectId, Len(images),
                                 [k \in 1..Len(images) |-> imageResults[k - 1]])
  /\ UNCHANGED <<formData, settings, images, projectId, store, lastId, files, savePc,
                 saveResult, detPc, modelResponse, detectionResult, imageResults,
                 createPersonCalls, detVars, sanVars, extVars, sumVars, clientVars, delVars, nameVars>>

(* ------------------------------------------------------------------ *)
(* Specification of one request                                         *)
(* ------------------------------------------------------------------ *)
SettingsObject(confidence) ==
  [kind |-> "string", json |-> "object",
   obj |-> [NoMembers EXCEPT !.confidence = confidence]]

RequestSettings ==
  {[kind |-> "absent", json |-> "invalid", obj |-> NoMembers],
   [kind |-> "string", json |-> "null", obj |-> NoMembers],
   SettingsObject(Num(Thousandths(0, 900)))}

RECURSIVE SeqsUpTo(_, _)
SeqsUpTo(S, n) ==
  IF n = 0 THEN {<<>>}
  ELSE LET shorter == SeqsUpTo(S, n - 1)
       IN shorter \cup {Append(q, x) : q \in {r \in shorter : Len(r) = n - 1}, x \in S}

RequestForms ==
  {[parsed |-> p, settings |-> st, groups |-> g] :
     p \in BOOLEAN, st \in RequestSettings, g \in SeqsUpTo(GroupKinds, MaxImages)}

OrchIdle ==
  /\ settings = NoMembers
  /\ images = <<>>
  /\ projectId = 0
  /\ store = [projects |-> {}, images |-> {}, people |-> {}]
  /\ lastId = [projects |-> 0, images |-> 0, people |-> 0]
  /\ files = {}
  /\ savePc = [i \in Indices |-> "off"]
  /\ saveResult = [i \in Indices |-> NoImage]
  /\ detPc = [i \in Indices |-> "off"]
  /\ modelResponse = [i \in Indices |-> NoResponse]
  /\ detectionResult = [i \in Indices |-> [threw |-> FALSE, people |-> <<>>]]
  /\ imageResults = [i \in Indices |-> NoResult]
  /\ createPersonCalls = [i \in Indices |-> 0]
  /\ response = NotSent

DetIdle ==
  /\ detIn = NoResponse
  /\ detThreshold = Num(0)
  /\ detOut = [called |-> FALSE, threw |-> FALSE, people |-> <<>>]

SanIdle ==
  /\ sanIn = NoForm.settings
  /\ sanOut = [called |-> FALSE, threw |-> FALSE, value |-> NoMembers]

ExtIdle ==
  /\ extIn = NoForm.groups
  /\ extOut = [called |-> FALSE, images |-> <<>>]

SumIdle ==
  /\ sumIn = <<>>
  /\ sumOut = [called |-> FALSE, response |-> NotSent]

EmptyStore == [projects |-> {}, images |-> {}, people |-> {}]

DelIdle ==
  /\ delStore = EmptyStore
  /\ delBefore = EmptyStore
  /\ delDeleted = {}

NameIdle ==
  /\ nameIn = <<>>
  /\ nameOut = [called |-> FALSE, names |-> <<>>]

ClientIdle ==
  /\ clientPc = "off"
  /\ clientImages = <<>>
  /\ isSending = FALSE
  /\ processingProjects = <<>>
  /\ processingId = 0
  /\ sentImages = <<>>
  /\ fetchOutcome = "none"
  /\ toast = ""
  /\ sends = 0

Init ==
  /\ pc = "idle"
  /\ formData \in RequestForms
  /\ OrchIdle
  /\ DetIdle
  /\ SanIdle
  /\ ExtIdle
  /\ SumIdle
  /\ ClientIdle
  /\ DelIdle
  /\ NameIdle

Next ==
  \/ Start
  \/ \E i \in Indices : SaveFile(i)
  \/ \E i \in Indices : SaveRow(i)
  \/ \E i \in Indices : Detect(i)
  \/ \E i \in Indices : Join(i)
  \/ Respond

Spec == Init /\ [][Next]_vars

(* One request that never stops while a step of it can run: every       *)
(* storage write, gateway call and detector call returns and the event   *)
(* loop runs every continuation.  The requests are those sent without a  *)
(* threshold of their own, which has no part in the scheduling.          *)
FairInit == Init /\ formData.settings.json # "object"

FairSpec == FairInit /\ [][Next]_vars /\ WF_vars(Next)

(* ------------------------------------------------------------------ *)
(* Specification of the detection client on its own                     *)
(* ------------------------------------------------------------------ *)
NullEntry == [m \in PersonMembers |-> Undefined]

ModelPersons ==
  {GeminiPerson(h, Num(Thousandths(c, 0)), b, Num(Thousandths(p, 0))) :
     h \in {True, False}, c \in {0, 70, 80, 150}, b \in {Null, Arr(2)}, p \in {95, 120}}
  \cup {NullEntry}

ModelResponses ==
  {Response(c, "empty", <<>>) : c \in {"bufferRejects", "rejects"}}
  \cup {Response("resolves", t, <<>>) : t \in {"empty", "invalid", "null", "scalar", "object"}}
  \cup {Response("resolves", "persons", ps) : ps \in SeqsUpTo(ModelPersons, MaxPersons)}

Thresholds ==
  {Num(Thousandths(0, 50)), Num(Thousandths(0, 500)), Num(Thousandths(0, 800)),
   Num(Thousandths(1, 0))}

DetectCall ==
  /\ ~detOut.called
  /\ detOut' = [called |-> TRUE,
                threw |-> detectHelmetInImage(detIn, detThreshold).threw,
                people |-> detectHelmetInImage(detIn, detThreshold).people]
  /\ UNCHANGED <<orchVars, detIn, detThreshold, sanVars, extVars, sumVars, clientVars, delVars, nameVars>>

InitDetect ==
  /\ pc = "off"
  /\ formData = NoForm
  /\ OrchIdle
  /\ SanIdle
  /\ ExtIdle
  /\ SumIdle
  /\ ClientIdle
  /\ DelIdle
  /\ NameIdle
  /\ detIn \in ModelResponses
  /\ detThreshold \in Thresholds
  /\ detOut = [called |-> FALSE, threw |-> FALSE, people |-> <<>>]

NextDetect == DetectCall

SpecDetect == InitDetect /\ [][NextDetect]_vars

(* ------------------------------------------------------------------ *)
(* Specification of the settings sanitizer on its own                   *)
(* ------------------------------------------------------------------ *)
Tenth == Thousandths(0, 100)

(* Per numeric field: left out, below the range, inside it, above it. *)
FieldInside(f) ==
  CASE f = "confidence" -> Thousandths(0, 900)
    [] f = "geminiWeight" -> Thousandths(0, 500)
    [] f = "grokWeight" -> Thousandths(0, 500)
    [] f = "maxFileSize" -> Thousandths(100, 0)
    [] f = "maxWidth" -> Thousandths(800, 0)
    [] f = "maxHeight" -> Thousandths(600, 0)

NumberInputs(f) ==
  {Undefined, Num(FieldMin(f) - Tenth), Num(FieldInside(f)), Num(FieldMax(f) + Tenth)}

Obj == [t |-> "object", n |-> 0, s |-> <<>>]

OtherInputs ==
  {Null, True, Str(<<"0", ".", "9">>), Str(<<"2">>), Str(<<"p", "d", "f">>), Arr(1), Obj}

TagInputs ==
  {Undefined, Str(<<" ", "S", "!", "-", "A", " ">>), Str(<<"!">>),
   Str(<<"S", "\t", "A">>)}

SettingsObjects ==
  {[f \in SettingsFields |->
      CASE f = "confidence" -> c [] f = "geminiWeight" -> gw [] f = "grokWeight" -> kw
        [] f = "maxFileSize" -> fs [] f = "maxWidth" -> w [] f = "maxHeight" -> h
        [] f = "projectTag" -> tag [] OTHER -> Undefined] :
     c \in NumberInputs("confidence") \cup OtherInputs,
     gw \in NumberInputs("geminiWeight"), kw \in NumberInputs("grokWeight"),
     fs \in NumberInputs("maxFileSize"), w \in NumberInputs("maxWidth"),
     h \in NumberInputs("maxHeight"), tag \in TagInputs}

SettingsInputs ==
  {[kind |-> k, json |-> "invalid", obj |-> NoMembers] : k \in {"absent", "file"}}
  \cup {[kind |-> "string", json |-> j, obj |-> NoMembers] :
          j \in {"invalid", "null", "number", "boolean", "string", "array"}}
  \cup {[kind |-> "string", json |-> "object", obj |-> o] : o \in SettingsObjects}

SanitizeCall ==
  /\ ~sanOut.called
  /\ sanOut' = [called |-> TRUE,
                threw |-> sanitizeSettings(sanIn, DEFAULT_API_SETTINGS).threw,
                value |-> sanitizeSettings(sanIn, DEFAULT_API_SETTINGS).value]
  /\ UNCHANGED <<orchVars, detVars, sanIn, extVars, sumVars, clientVars, delVars, nameVars>>

InitSanitize ==
  /\ pc = "off"
  /\ formData = NoForm
  /\ OrchIdle
  /\ DetIdle
  /\ ExtIdle
  /\ SumIdle
  /\ ClientIdle
  /\ DelIdle
  /\ NameIdle
  /\ sanIn \in SettingsInputs
  /\ sanOut = [called |-> FALSE, threw |-> FALSE, value |-> NoMembers]

NextSanitize == SanitizeCall

SpecSanitize == InitSanitize /\ [][NextSanitize]_vars

(* ------------------------------------------------------------------ *)
(* Specification of the image extractor on its own                      *)
(* ------------------------------------------------------------------ *)
ExtractCall ==
  /\ ~extOut.called
  /\ extOut' = [called |-> TRUE,
                images |-> extractImagesFromFormData([groups |-> extIn])]
  /\ UNCHANGED <<orchVars, detVars, sanVars, extIn, sumVars, clientVars, delVars, nameVars>>

InitExtract ==
  /\ pc = "off"
  /\ formData = NoForm
  /\ OrchIdle
  /\ DetIdle
  /\ SanIdle
  /\ SumIdle
  /\ ClientIdle
  /\ DelIdle
  /\ NameIdle
  /\ extIn \in SeqsUpTo(GroupKinds, MaxGroups)
  /\ extOut = [called |-> FALSE, images |-> <<>>]

NextExtract == ExtractCall

SpecExtract == InitExtract /\ [][NextExtract]_vars

(* ------------------------------------------------------------------ *)
(* Specification of the summary computation on its own                  *)
(* ------------------------------------------------------------------ *)
(* The rows createPerson returned for n detections of one image. *)
SummaryPeople(n, imageId) ==
  [k \in 1..n |->
     PersonRow((imageId - 1) * MaxPersons + k, imageId,
               mapPerson([HelmetAt85 EXCEPT !.person_id = Num(Thousandths(k - 1, 0))],
                         DEFAULT_API_SETTINGS.confidence))]

(* The result objects the callback of images.map can return for index. *)
ResultsFor(index) ==
  {FailedResult(index, "Failed to save image")}
  \cup {SuccessResult(index,
                      ImageRow(index + 1, 1, FileName(NoProjectName, index)),
                      SummaryPeople(n, index + 1)) : n \in 0..MaxPersons}

(* The values imageResults can take for n images: one result per index. *)
RECURSIVE ResultLists(_)
ResultLists(n) ==
  IF n = 0 THEN {<<>>}
  ELSE {Append(q, x) : q \in ResultLists(n - 1), x \in ResultsFor(n - 1)}

ImageResultLists == UNION {ResultLists(n) : n \in 1..MaxResults}

SummaryCall ==
  /\ ~sumOut.called
  /\ sumOut' = [called |-> TRUE,
                response |-> SuccessResponse(1, Len(sumIn), sumIn)]
  /\ UNCHANGED <<orchVars, detVars, sanVars, extVars, sumIn, clientVars, delVars, nameVars>>

InitSummary ==
  /\ pc = "off"
  /\ formData = NoForm
  /\ OrchIdle
  /\ DetIdle
  /\ SanIdle
  /\ ExtIdle
  /\ ClientIdle
  /\ DelIdle
  /\ NameIdle
  /\ sumIn \in ImageResultLists
  /\ sumOut = [called |-> FALSE, response |-> NotSent]

NextSummary == SummaryCall

SpecSummary == InitSummary /\ [][NextSummary]_vars

(* ------------------------------------------------------------------ *)
(* Specification of the client's sendToApi                              *)
(* ------------------------------------------------------------------ *)
ClientClock == 0..1

ProcessingProject(now) == [id |-> now, name |-> "Processing...", timestamp |-> now]

(* prev.filter((p) => p.id !== processingId) *)
RECURSIVE WithoutProcessing(_, _)
WithoutProcessing(prev, id) ==
  IF prev = <<>> THEN <<>>
  ELSE (IF Head(prev).id # id THEN <<Head(prev)>> ELSE <<>>)
       \o WithoutProcessing(Tail(prev), id)

(* The catch block leaving the placeholder in place. *)
catchBlockKeepsPlaceholder ==
  /\ toast' = "Failed to process images. Please try again."
  /\ processingProjects' = processingProjects
  /\ isSending' = FALSE
  /\ clientPc' = "finished"

(* The catch block of sendToApi followed by its finally block. *)
catchBlock ==
  /\ toast' = "Failed to process images. Please try again."
  /\ processingProjects' = WithoutProcessing(processingProjects, processingId)
  /\ isSending' = FALSE
  /\ clientPc' = "finished"

(* The user drops files on the page while no call is running. *)
UserAddsImage ==
  /\ clientPc \in {"idle", "finished"}
  /\ Len(clientImages) < MaxClientImages
  /\ clientImages' = Append(clientImages, Len(clientImages) + 1)
  /\ clientPc' = "idle"
  /\ UNCHANGED <<isSending, processingProjects, processingId, sentImages,
                 fetchOutcome, toast, sends>>
  /\ UNCHANGED <<orchVars, detVars, sanVars, extVars, sumVars, delVars, nameVars>>

(* sendToApi up to await fetch. *)
SendClick ==
  /\ clientPc \in {"idle", "finished"}
  /\ ~isSending
  /\ sends < MaxSends
  /\ sends' = sends + 1
  /\ sentImages' = clientImages
  /\ fetchOutcome' = "none"
  /\ IF clientImages = <<>>
     THEN /\ toast' = "No images to send"
          /\ clientPc' = "finished"
          /\ UNCHANGED <<isSending, processingProjects, processingId>>
     ELSE \E now \in ClientClock :
            /\ isSending' = TRUE
            /\ processingId' = now
            /\ processingProjects' = <<ProcessingProject(now)>> \o processingProjects
            /\ toast' = "Sending request to API..."
            /\ clientPc' = "fetching"
  /\ UNCHANGED clientImages
  /\ UNCHANGED <<orchVars, detVars, sanVars, extVars, sumVars, delVars, nameVars>>

(* fetch settles: rejected, or resolved with response.ok false or true. *)
FetchSettles ==
  /\ clientPc = "fetching"
  /\ \E outcome \in {"networkError", "notOk", "ok"} :
       /\ fetchOutcome' = outcome
       /\ IF outcome = "ok"
          THEN /\ clientPc' = "parsing"
               /\ UNCHANGED <<toast, processingProjects, isSending>>
          ELSE catchBlock
  /\ UNCHANGED <<clientImages, processingId, sentImages, sends>>
  /\ UNCHANGED <<orchVars, detVars, sanVars, extVars, sumVars, delVars, nameVars>>

(* response.json() settles: rejected, or a body without summary, without *)
(* projectId, or complete.                                               *)
JsonSettles ==
  /\ clientPc = "parsing"
  /\ \E body \in {"invalid", "noSummary", "noProjectId", "complete"} :
       IF body = "invalid"
       THEN catchBlock /\ UNCHANGED clientImages
       ELSE /\ clientImages' = <<>>
            /\ IF body = "noSummary"
               THEN catchBlock
               ELSE /\ processingProjects' =
                         WithoutProcessing(processingProjects, processingId)
                    /\ toast' = "Successfully processed"
                    /\ IF body = "noProjectId"
                       THEN isSending' = FALSE /\ clientPc' = "finished"
                       ELSE isSending' = isSending /\ clientPc' = "adding"
  /\ UNCHANGED <<processingId, sentImages, fetchOutcome, sends>>
  /\ UNCHANGED <<orchVars, detVars, sanVars, extVars, sumVars, delVars, nameVars>>

(* addProjectToList settles (it catches its own errors), then finally. *)
AddSettles ==
  /\ clientPc = "adding"
  /\ \E loaded \in BOOLEAN :
       toast' = IF loaded THEN toast ELSE "Failed to load new project"
  /\ isSending' = FALSE
  /\ clientPc' = "finished"
  /\ UNCHANGED <<clientImages, processingProjects, processingId, sentImages,
                 fetchOutcome, sends>>
  /\ UNCHANGED <<orchVars, detVars, sanVars, extVars, sumVars, delVars, nameVars>>

InitClient ==
  /\ pc = "off"
  /\ formData = NoForm
  /\ OrchIdle
  /\ DetIdle
  /\ SanIdle
  /\ ExtIdle
  /\ SumIdle
  /\ DelIdle
  /\ NameIdle
  /\ clientPc = "idle"
  /\ clientImages = <<>>
  /\ isSending = FALSE
  /\ processingProjects = <<>>
  /\ processingId = 0
  /\ sentImages = <<>>
  /\ fetchOutcome = "none"
  /\ toast = ""
  /\ sends = 0

NextClient ==
  \/ UserAddsImage
  \/ SendClick
  \/ FetchSettles
  \/ JsonSettles
  \/ AddSettles

SpecClient == InitClient /\ [][NextClient]_vars

(* ------------------------------------------------------------------ *)
(* Specification of project deletion on its own                         *)
(* ------------------------------------------------------------------ *)
(* ON DELETE CASCADE of images.project_id only. *)
onDeleteCascadeImagesOnly(s) ==
  [s EXCEPT !.images = {im \in @ : \E p \in s.projects : p.id = im.projectID}]

(* ON DELETE CASCADE of images.project_id and of people.image_id: the   *)
(* rows whose parent row is gone are removed.                           *)
onDeleteCascade(s) ==
  LET kept == {im \in s.images : \E p \in s.projects : p.id = im.projectID}
  IN [s EXCEPT !.images = kept,
               !.people = {pe \in @ : \E im \in kept : im.id = pe.imageID}]

(* Delete of one project row by id. *)
deleteProject(s, id) ==
  onDeleteCascade([s EXCEPT !.projects = {p \in @ : p.id # id}])

getImagesByProject(s, id) == {im \in s.images : im.projectID = id}

(* The store with MaxProjects projects, image k owned by project        *)
(* imageOwners[k] and person k owned by image personOwners[k].          *)
StoreOf(imageOwners, personOwners) ==
  [projects |-> {ProjectRow(id, generateProjectName(id, DEFAULT_API_SETTINGS.projectTag),
                            DEFAULT_API_SETTINGS) : id \in 1..MaxProjects},
   images |-> {ImageRow(k, imageOwners[k],
                        FileName(generateProjectName(imageOwners[k],
                                                     DEFAULT_API_SETTINGS.projectTag), k))
                 : k \in 1..Len(imageOwners)},
   people |-> {PersonRow(k, personOwners[k],
                         mapPerson(HelmetAt85, DEFAULT_API_SETTINGS.confidence))
                 : k \in 1..Len(personOwners)}]

Stores ==
  {StoreOf(io, po) :
     io \in SeqsUpTo(1..MaxProjects, MaxRows),
     po \in SeqsUpTo(1..MaxRows, MaxRows)}

DeleteCall ==
  /\ \E id \in (1..MaxProjects) \ delDeleted :
       /\ delStore' = deleteProject(delStore, id)
       /\ delDeleted' = delDeleted \cup {id}
  /\ UNCHANGED <<orchVars, detVars, sanVars, extVars, sumVars, clientVars, delBefore,
                 nameVars>>

InitDelete ==
  /\ pc = "off"
  /\ formData = NoForm
  /\ OrchIdle
  /\ DetIdle
  /\ SanIdle
  /\ ExtIdle
  /\ SumIdle
  /\ ClientIdle
  /\ NameIdle
  /\ delStore \in {s \in Stores : \A pe \in s.people : \E im \in s.images : im.id = pe.imageID}
  /\ delBefore = delStore
  /\ delDeleted = {}

NextDelete == DeleteCall

SpecDelete == InitDelete /\ [][NextDelete]_vars

(* ------------------------------------------------------------------ *)
(* Specification of the project names of two requests                   *)
(* ------------------------------------------------------------------ *)
(* Clock readings in milliseconds and sanitized project tags. *)
ClockReadings == {0, 400, 999, 1000, 1600}
ProjectTags == {DEFAULT_API_SETTINGS.projectTag, Str(<<"S">>)}

(* The second a Date falls in: all that getSeconds() and the larger     *)
(* fields of the name keep of it.                                       *)
SecondOf(milliseconds) == milliseconds \div 1000

NameRequests == [now : ClockReadings, projectTag : ProjectTags]

NameCall ==
  /\ ~nameOut.called
  /\ nameOut' = [called |-> TRUE,
                 names |-> [k \in 1..Len(nameIn) |->
                              generateProjectName(SecondOf(nameIn[k].now),
                                                  nameIn[k].projectTag)]]
  /\ UNCHANGED <<orchVars, detVars, sanVars, extVars, sumVars, clientVars, delVars,
                 nameIn>>

InitNames ==
  /\ pc = "off"
  /\ formData = NoForm
  /\ OrchIdle
  /\ DetIdle
  /\ SanIdle
  /\ ExtIdle
  /\ SumIdle
  /\ ClientIdle
  /\ DelIdle
  /\ nameIn \in [1..2 -> NameRequests]
  /\ nameOut = [called |-> FALSE, names |-> <<>>]

NextNames == NameCall

SpecNames == InitNames /\ [][NextNames]_vars

(* ------------------------------------------------------------------ *)
(* Properties of one request (Spec)                                     *)
(* ------------------------------------------------------------------ *)
(* The Image rows stored for the files of image index i. *)
ImageRowsOf(i) == {im \in store.images : im.fileName.index = i}

Responded == pc = "responded" /\ projectId # 0

(* C1: per-image isolation.  Once the project exists, the response has   *)
(* the success shape with one result per extracted image; result i is    *)
(* success=true exactly when the storage write and the Image insert of   *)
(* index i both worked (its Image row exists), it then carries the id of *)
(* that row, and no two results share an imageId.                        *)
C1_PerImageIsolation ==
  Responded =>
    /\ response.status = 200
    /\ response.success
    /\ Len(response.results) = Len(images)
    /\ \A i \in Active :
         LET r == response.results[i + 1]
         IN /\ r.index = i
            /\ r.success <=> ImageRowsOf(i) # {}
            /\ r.success => r.imageId \in {im.id : im \in ImageRowsOf(i)}
    /\ \A i, j \in Active :
         (i # j /\ response.results[i + 1].success /\ response.results[j + 1].success)
           => response.results[i + 1].imageId # response.results[j + 1].imageId

C1_Witness ==
  /\ Responded
  /\ Len(images) = 2
  /\ ImageRowsOf(0) = {} /\ ~response.results[1].success
  /\ ImageRowsOf(1) # {} /\ response.results[2].success

(* C2: createPerson is never called for an image index that has no Image *)
(* row (the storage write failed or createImage returned null), whatever *)
(* the detector returned and whichever path settled first.               *)
C2_NoPersonWithoutImage ==
  \A i \in Active : ImageRowsOf(i) = {} => createPersonCalls[i] = 0

C2_Witness ==
  \E i \in Active :
    /\ imageResults[i].done
    /\ ImageRowsOf(i) = {}
    /\ FileName(CurrentProjectName, i) \in files
    /\ detectionResult[i].people # <<>>
    /\ createPersonCalls[i] = 0

(* C3: referential integrity in every reachable state: every Person row  *)
(* names an existing Image row and every Image row an existing Project.  *)
C3_ReferentialIntegrity ==
  /\ \A p \in store.people : \E im \in store.images : im.id = p.imageID
  /\ \A im \in store.images : \E pr \in store.projects : pr.id = im.projectID

C3_Witness ==
  /\ Cardinality(store.images) = 2
  /\ store.people # {}
  /\ \E i \in Active : ~imageResults[i].done

(* C6: a person with a verdict other than true has helmetBox null, both  *)
(* in what detectHelmetInImage returns and in every Person row stored.   *)
C6_NoHelmetNoBox ==
  /\ \A i \in Active : \A k \in 1..Len(detectionResult[i].people) :
       detectionResult[i].people[k].hasHelmet # True
         => detectionResult[i].people[k].helmetBox = Null
  /\ \A row \in store.people : row.hasHelmet # True => row.helmetBox = Null

C6_Witness ==
  \E i \in Active : \E k \in 1..Len(modelResponse[i].persons) :
    /\ modelResponse[i].persons[k].hasHelmet = False
    /\ modelResponse[i].persons[k].helmetBox # Null
    /\ \E row \in store.people :
         /\ row.imageID = imageResults[i].imageId
         /\ row.personID = Num(Thousandths(k - 1, 0))
         /\ row.hasHelmet = False
         /\ row.helmetBox = Null

(* The detector failed for image i: the call rejected or its text did    *)
(* not parse to an object with a persons array.                          *)
DetectorFailed(i) ==
  /\ modelResponse[i].call # "none"
  /\ ~(modelResponse[i].call = "resolves" /\ modelResponse[i].text = "persons")

(* C9: a failed detection is degraded, not fatal: when the detector      *)
(* failed for image i and the Image row of i exists, result i is         *)
(* success=true with that row's id, peopleDetected=0 and no people, and  *)
(* the response, once sent, is the success response holding that result. *)
C9_DetectionDegraded ==
  \A i \in Active :
    (imageResults[i].done /\ DetectorFailed(i) /\ ImageRowsOf(i) # {}) =>
      /\ imageResults[i].success
      /\ imageResults[i].imageId \in {im.id : im \in ImageRowsOf(i)}
      /\ imageResults[i].peopleDetected = 0
      /\ imageResults[i].people = <<>>
      /\ Responded => (response.status = 200 /\ response.results[i + 1] = imageResults[i])

C9_Witness ==
  /\ Responded
  /\ \E i \in Active :
       /\ DetectorFailed(i)
       /\ response.results[i + 1].success
       /\ response.results[i + 1].peopleDetected = 0
  /\ \E j \in Active : response.results[j + 1].peopleDetected > 0

(* ------------------------------------------------------------------ *)
(* Properties of the detection client (SpecDetect)                      *)
(* ------------------------------------------------------------------ *)
PersonsAnswered ==
  detOut.called /\ detIn.call = "resolves" /\ detIn.text = "persons"

(* helmetConfidence / 100 < confidenceThreshold, without the division *)
BelowThreshold(person) == person.helmetConfidence.n < 100 * detThreshold.n

(* C4: threshold downgrade.  A person reported with hasHelmet=true and a *)
(* rescaled helmet confidence strictly below the threshold comes back    *)
(* with hasHelmet=false and helmetBox=null; at or above the threshold    *)
(* the true verdict and the model's helmetBox are kept.                  *)
C4_ThresholdDowngrade ==
  PersonsAnswered =>
    /\ Len(detOut.people) = Len(detIn.persons)
    /\ \A k \in 1..Len(detIn.persons) :
         (detIn.persons[k].hasHelmet = True /\ IsNumber(detIn.persons[k].helmetConfidence))
           => IF BelowThreshold(detIn.persons[k])
              THEN /\ detOut.people[k].hasHelmet = False
                   /\ detOut.people[k].helmetBox = Null
              ELSE /\ detOut.people[k].hasHelmet = True
                   /\ detOut.people[k].helmetBox = detIn.persons[k].helmetBox

C4_Witness ==
  /\ PersonsAnswered
  /\ detThreshold = Num(Thousandths(0, 800))
  /\ Len(detIn.persons) = 2
  /\ detIn.persons[1].hasHelmet = True
  /\ detIn.persons[1].helmetConfidence = Num(Thousandths(70, 0))
  /\ detIn.persons[1].helmetBox # Null
  /\ detOut.people[1].hasHelmet = False /\ detOut.people[1].helmetBox = Null
  /\ detIn.persons[2].hasHelmet = True
  /\ detIn.persons[2].helmetConfidence = Num(Thousandths(80, 0))
  /\ detOut.people[2].hasHelmet = True /\ detOut.people[2].helmetBox = Arr(2)

(* C5: the threshold never upgrades a verdict: a person reported with    *)
(* hasHelmet=false comes back with hasHelmet=false for every threshold   *)
(* and every helmet confidence.                                          *)
C5_NeverUpgraded ==
  PersonsAnswered =>
    \A k \in 1..Len(detIn.persons) :
      detIn.persons[k].hasHelmet = False => detOut.people[k].hasHelmet = False

C5_Witness ==
  /\ PersonsAnswered
  /\ \E k \in 1..Len(detIn.persons) :
       /\ detIn.persons[k].hasHelmet = False
       /\ IsNumber(detIn.persons[k].helmetConfidence)
       /\ ~BelowThreshold(detIn.persons[k])
       /\ detOut.people[k].hasHelmet = False

(* C7: after normalization personConfidence and helmetConfidence lie in  *)
(* [0,1], for every numeric confidence the model answers with.           *)
C7_ConfidencesInUnitRange ==
  PersonsAnswered =>
    \A k \in 1..Len(detIn.persons) :
      (IsNumber(detIn.persons[k].personConfidence)
       /\ IsNumber(detIn.persons[k].helmetConfidence))
        => /\ IsNumber(detOut.people[k].personConfidence)
           /\ detOut.people[k].personConfidence.n \in 0..Thousandths(1, 0)
           /\ IsNumber(detOut.people[k].helmetConfidence)
           /\ detOut.people[k].helmetConfidence.n \in 0..Thousandths(1, 0)

(* C8: detectHelmetInImage never throws, and resolves to the empty list  *)
(* whenever a buffer read or the model call rejects or the text does not *)
(* parse to an object with a persons array.                              *)
C8_NeverThrows ==
  detOut.called =>
    /\ ~detOut.threw
    /\ ~(detIn.call = "resolves" /\ detIn.text = "persons") => detOut.people = <<>>
    /\ PersonsAnswered => Len(detOut.people) = Len(detIn.persons)

C8_Witness ==
  /\ detOut.called
  /\ detIn.call = "resolves" /\ detIn.text = "invalid"
  /\ ~detOut.threw
  /\ detOut.people = <<>>

(* ------------------------------------------------------------------ *)
(* Properties of the settings sanitizer (SpecSanitize)                  *)
(* ------------------------------------------------------------------ *)
ObjectSanitized ==
  sanOut.called /\ ~sanOut.threw /\ sanIn.kind = "string" /\ sanIn.json = "object"

OutOfRange(f) ==
  /\ IsNumber(sanIn.obj[f])
  /\ sanIn.obj[f].n < FieldMin(f) \/ sanIn.obj[f].n > FieldMax(f)

(* C10 as stated: a numeric field supplied outside its range comes out   *)
(* as the default's value.                                               *)
C10_OutOfRangeIsDefault ==
  ObjectSanitized =>
    \A f \in NumericFields : OutOfRange(f) => sanOut.value[f] = DEFAULT_API_SETTINGS[f]

(* C10 amended: a numeric field supplied outside its range comes out as  *)
(* the nearest bound of the range: the minimum when below, the maximum   *)
(* when above.                                                           *)
C10_OutOfRangeIsClamped ==
  ObjectSanitized =>
    \A f \in NumericFields :
      OutOfRange(f) =>
        sanOut.value[f] =
          Num(IF sanIn.obj[f].n < FieldMin(f) THEN FieldMin(f) ELSE FieldMax(f))

C10_Witness ==
  /\ ObjectSanitized
  /\ \A f \in NumericFields : OutOfRange(f)
  /\ sanIn.obj.confidence.n < FieldMin("confidence")
  /\ sanOut.value.confidence = Num(FieldMin("confidence"))
  /\ sanOut.value.confidence # DEFAULT_API_SETTINGS.confidence
  /\ sanOut.value.maxFileSize = Num(FieldMax("maxFileSize"))

(* C11: sanitizeSettings returns a settings object, without throwing,   *)
(* for every value of the settings form field.                           *)
C11_SanitizerNeverThrows == sanOut.called => ~sanOut.threw

(* C12: for a settings string that is not parseable JSON the output      *)
(* equals the default settings object, field by field.                   *)
C12_InvalidJsonGivesDefaults ==
  (sanOut.called /\ sanIn.kind = "string" /\ sanIn.json = "invalid") =>
    /\ ~sanOut.threw
    /\ \A f \in SettingsFields : sanOut.value[f] = DEFAULT_API_SETTINGS[f]

C12_Witness ==
  /\ sanOut.called
  /\ sanIn.kind = "string" /\ sanIn.json = "invalid"
  /\ sanOut.value.confidence = Num(Thousandths(0, 800))
  /\ sanOut.value.projectTag = Str(<<"A", "P", "I">>)

(* The ranges the README and the client's settingsSchema give: the      *)
(* confidence threshold starts at 0.05.                                  *)
DocumentedMin(f) == IF f = "confidence" THEN Thousandths(0, 50) ELSE FieldMin(f)

(* C13: every confidence c with 0.05 <= c <= 1.0 in the payload comes    *)
(* out of sanitizeSettings unchanged.                                    *)
C13_DocumentedConfidenceKept ==
  (ObjectSanitized /\ IsNumber(sanIn.obj.confidence)
   /\ sanIn.obj.confidence.n >= DocumentedMin("confidence")
   /\ sanIn.obj.confidence.n <= FieldMax("confidence"))
    => sanOut.value.confidence = sanIn.obj.confidence

(* C14: every numeric field of the output is a number (not NaN) inside   *)
(* its range: confidence in [0.05,1], the weights in [0,1], maxFileSize  *)
(* in [50,15000], maxWidth in [300,15000], maxHeight in [200,15000].     *)
C14_NumericFieldsInRange ==
  (sanOut.called /\ ~sanOut.threw) =>
    \A f \in NumericFields :
      /\ IsNumber(sanOut.value[f])
      /\ sanOut.value[f].n >= DocumentedMin(f)
      /\ sanOut.value[f].n <= FieldMax(f)

C14_Witness ==
  /\ ObjectSanitized
  /\ sanIn.obj.confidence = Str(<<"p", "d", "f">>)
  /\ sanIn.obj.maxWidth = Num(FieldMin("maxWidth") - Tenth)
  /\ sanIn.obj.maxHeight = Num(FieldMax("maxHeight") + Tenth)
  /\ sanIn.obj.maxFileSize = Undefined
  /\ sanOut.value.maxWidth = Num(Thousandths(300, 0))
  /\ sanOut.value.maxHeight = Num(Thousandths(15000, 0))

(* C15: a numeric field that is missing or holds a value that is not a   *)
(* number comes out as the default's value.                              *)
C15_NonNumberGivesDefault ==
  ObjectSanitized =>
    \A f \in NumericFields :
      sanIn.obj[f].t # "number" => sanOut.value[f] = DEFAULT_API_SETTINGS[f]

(* C16: every string field of the output is non-empty, holds only ASCII  *)
(* letters, digits, underscore, hyphen and space, and neither starts nor *)
(* ends with whitespace.                                                 *)
C16_StringFieldsClean ==
  (sanOut.called /\ ~sanOut.threw) =>
    \A f \in StringFields :
      LET v == sanOut.value[f]
      IN /\ v.t = "string"
         /\ v.s # <<>>
         /\ \A k \in 1..Len(v.s) : v.s[k] \in Letters \cup Digits \cup {"_", "-", " "}
         /\ v.s[1] \notin Whitespace
         /\ v.s[Len(v.s)] \notin Whitespace

(* ------------------------------------------------------------------ *)
(* Claims about the image extractor                                     *)
(* ------------------------------------------------------------------ *)
(* The first suffix for which the form has no image_N entry.            *)
FirstMissing(groups) ==
  CHOOSE k \in 0..Len(groups) :
    /\ (k + 1 > Len(groups) \/ groups[k + 1] = "absent")
    /\ \A j \in 0..(k - 1) : groups[j + 1] # "absent"

FormIndices(extracted) == {extracted[j].formIndex : j \in 1..Len(extracted)}

GapAtTwo == <<"files", "files", "absent", "files">>

(* C17: the scan stops at the first suffix whose image_N entry is        *)
(* absent: no returned record has a suffix above it, and valid groups at *)
(* suffixes 0, 1 and 3 give exactly two images.                          *)
C17_StopsAtFirstGap ==
  extOut.called =>
    /\ \A n \in FormIndices(extOut.images) : n < FirstMissing(extIn)
    /\ extIn = GapAtTwo => Len(extOut.images) = 2

C17_Witness ==
  /\ extOut.called
  /\ extIn = GapAtTwo
  /\ FormIndices(extOut.images) = {0, 1}

(* C18: below the first missing suffix a record is returned for exactly  *)
(* the suffixes whose image and thumb are both Files, each once, and the *)
(* records keep the increasing order of their suffixes.                  *)
C18_ValidGroupsInOrder ==
  extOut.called =>
    LET valid == {n \in 0..(FirstMissing(extIn) - 1) : extIn[n + 1] = "files"}
    IN /\ FormIndices(extOut.images) = valid
       /\ Len(extOut.images) = Cardinality(valid)
       /\ \A j \in 1..(Len(extOut.images) - 1) :
            extOut.images[j].formIndex < extOut.images[j + 1].formIndex

C18_Witness ==
  /\ extOut.called
  /\ extIn = <<"noThumb", "files", "notFile", "files">>
  /\ extOut.images = <<[formIndex |-> 1], [formIndex |-> 3]>>

(* ------------------------------------------------------------------ *)
(* Claims about the failures before the per-image work                  *)
(* ------------------------------------------------------------------ *)
NoPerImageWork ==
  /\ files = {}
  /\ store.images = {}
  /\ store.people = {}
  /\ \A i \in Indices :
       /\ savePc[i] = "off"
       /\ detPc[i] = "off"
       /\ modelResponse[i] = NoResponse
       /\ createPersonCalls[i] = 0

ErrorShape(r) == r.error # "" /\ ~r.success /\ r.results = <<>>

(* C19: once images were extracted and createProject gave no id, the     *)
(* request is answered with status 500 and an error body, and no file    *)
(* is written, the detector is not called, and no image or person row    *)
(* is created.                                                           *)
C19_ProjectFailureStopsRequest ==
  (pc # "idle" /\ images # <<>> /\ projectId = 0) =>
    /\ pc = "responded"
    /\ response.status = 500
    /\ ErrorShape(response)
    /\ NoPerImageWork

C19_Witness ==
  /\ pc = "responded"
  /\ Len(images) = 2
  /\ projectId = 0
  /\ response = ErrorResponse(500, "Failed to create project")

(* C20: a request whose form was read, whose settings were sanitized     *)
(* and whose extraction returns no image is answered at once with        *)
(* status 400 and an error body; no project row exists, no file is       *)
(* written and the detector is not called.                               *)
C20_NoImagesIsRejected ==
  [][(/\ pc = "idle"
      /\ formData.parsed
      /\ ~sanitizeSettings(formData.settings, DEFAULT_API_SETTINGS).threw
      /\ extractImagesFromFormData(formData) = <<>>)
     => (/\ pc' = "responded"
         /\ response'.status = 400
         /\ ErrorShape(response')
         /\ store'.projects = {}
         /\ lastId'.projects = 0
         /\ NoPerImageWork')]_vars

C20_Witness ==
  /\ pc = "responded"
  /\ response = ErrorResponse(400, "No images provided")
  /\ settings = DEFAULT_API_SETTINGS
  /\ store.projects = {}
  /\ files = {}

(* ------------------------------------------------------------------ *)
(* Claims about the per-image results                                   *)
(* ------------------------------------------------------------------ *)
PersonRowsOf(imageId) == {p \in store.people : p.imageID = imageId}

(* C22: an image whose save path gave a row is reported success=true     *)
(* even when createPerson returned null for some detections; its people  *)
(* list holds exactly the person rows stored for that image, in the      *)
(* detector's order, and peopleDetected is the length of that list and   *)
(* the number of those rows.                                             *)
C22_PartialPersonSuccess ==
  \A i \in Active :
    (imageResults[i].done /\ saveResult[i].id # 0 /\ ~detectionResult[i].threw) =>
      LET r == imageResults[i]
          detected == detectionResult[i].people
      IN /\ r.success
         /\ Range(r.people) = PersonRowsOf(saveResult[i].id)
         /\ r.peopleDetected = Len(r.people)
         /\ r.peopleDetected = Cardinality(PersonRowsOf(saveResult[i].id))
         /\ \E pos \in [1..Len(r.people) -> 1..Len(detected)] :
              /\ \A j \in 1..(Len(r.people) - 1) : pos[j] < pos[j + 1]
              /\ \A j \in 1..Len(r.people) :
                   r.people[j] = PersonRow(r.people[j].id, saveResult[i].id,
                                           detected[pos[j]])

C22_Witness ==
  \E i \in Active :
    /\ imageResults[i].done
    /\ imageResults[i].success
    /\ createPersonCalls[i] = 2
    /\ imageResults[i].peopleDetected = 1
    /\ Cardinality(PersonRowsOf(saveResult[i].id)) = 1

(* C23: the success response holds one result per extracted image, in    *)
(* input order: results has length totalImages and the k-th result has   *)
(* index k-1, in whatever order the images were completed.               *)
C23_ResultsInInputOrder ==
  Responded =>
    /\ Len(response.results) = Len(images)
    /\ Len(response.results) = response.summary.totalImages
    /\ \A k \in 1..Len(response.results) :
         /\ response.results[k].done
         /\ response.results[k].index = k - 1

C23_Witness ==
  /\ Responded
  /\ Len(response.results) = 2
  /\ response.results[1].imageId = 2
  /\ response.results[2].imageId = 1

(* C27: the personID values returned by detectHelmetInImage are 0, 1,    *)
(* ..., n-1 in the order of the model's persons array, whatever          *)
(* person_id the model gave.                                             *)
C27_PersonIdsAreIndices ==
  detOut.called =>
    /\ \A k \in 1..Len(detOut.people) :
         detOut.people[k].personID = Num(Thousandths(k - 1, 0))
    /\ Len(detOut.people) \in {0, Len(detIn.persons)}

C27_Witness ==
  /\ detOut.called
  /\ Len(detIn.persons) = 2
  /\ \A k \in 1..2 : detIn.persons[k].person_id = Num(Thousandths(7, 0))
  /\ detOut.people[1].personID = Num(0)
  /\ detOut.people[2].personID = Num(Thousandths(1, 0))

(* C28: an index reported as failed has no image row and no person row   *)
(* in the store, and no createPerson call was made for it.               *)
C28_FailedIndexLeavesNoRows ==
  \A i \in Active :
    (imageResults[i].done /\ ~imageResults[i].success) =>
      /\ ImageRowsOf(i) = {}
      /\ \A p \in store.people : p.imageID # saveResult[i].id
      /\ createPersonCalls[i] = 0

C28_Witness ==
  \E i \in Active :
    /\ imageResults[i].done
    /\ ~imageResults[i].success
    /\ savePc[i] = "done"
    /\ FileName(CurrentProjectName, i) \in files
    /\ Len(detectionResult[i].people) = 2
    /\ store.people # {}

(* C29: when the request has been answered, every file pair it wrote is  *)
(* referenced by an image row of its project.                            *)
C29_NoOrphanFiles ==
  Responded =>
    \A f \in files :
      \E im \in store.images : im.fileName = f /\ im.projectID = projectId

(* C26: the success response is sent only when the save path and the    *)
(* detect path of every image have completed, so none is sent while a    *)
(* detector call is pending; a response once sent is never replaced;     *)
(* and when every write and every detector call returns, a response is   *)
(* eventually sent.                                                      *)
C26_ResponseWaitsForEveryPath ==
  /\ [](Responded =>
          \A i \in Active : savePc[i] = "done" /\ detPc[i] = "done")
  /\ []((\E i \in Active : detPc[i] = "call") => response = NotSent)
  /\ [][response # NotSent => response' = response]_vars
  /\ <>(response # NotSent)

C26_Witness ==
  /\ Len(images) = 2
  /\ response = NotSent
  /\ \E i \in Active :
       /\ detPc[i] = "call"
       /\ savePc[i] = "done"
       /\ \A j \in Active \ {i} :
            /\ imageResults[j].done
            /\ imageResults[j].success
            /\ ImageRowsOf(j) # {}
            /\ PersonRowsOf(saveResult[j].id) # {}

(* ------------------------------------------------------------------ *)
(* Claims about the summary                                             *)
(* ------------------------------------------------------------------ *)
(* C21: in a success response totalImages is the number of images,       *)
(* successfulImages the number of results with success=true,             *)
(* successfulImages + failedImages = totalImages, and                    *)
(* totalPeopleDetected the sum of peopleDetected over the successful     *)
(* results (2, 0 and 1 people in three images give 3 and 3).             *)
C21_SummaryArithmetic ==
  sumOut.called =>
    LET r == sumOut.response
        ok == {k \in 1..Len(sumIn) : sumIn[k].success}
    IN /\ r.success
       /\ r.results = sumIn
       /\ r.summary.totalImages = Len(sumIn)
       /\ r.summary.successfulImages = Cardinality(ok)
       /\ r.summary.successfulImages + r.summary.failedImages = r.summary.totalImages
       /\ r.summary.totalPeopleDetected =
            Cardinality({<<k, j>> \in ok \X (1..MaxPersons) :
                           j <= sumIn[k].peopleDetected})

C21_Witness ==
  /\ sumOut.called
  /\ Len(sumIn) = 3
  /\ \A k \in 1..3 : sumIn[k].success
  /\ sumIn[1].peopleDetected = 2
  /\ sumIn[2].peopleDetected = 0
  /\ sumIn[3].peopleDetected = 1
  /\ sumOut.response.summary.totalPeopleDetected = 3
  /\ sumOut.response.summary.successfulImages = 3

(* ------------------------------------------------------------------ *)
(* Claims about the client                                              *)
(* ------------------------------------------------------------------ *)
SendFinished == clientPc = "finished" /\ sentImages # <<>>

(* C30: once sendToApi has finished, whatever the outcome of the         *)
(* request, the placeholder it added is not in processingProjects and    *)
(* isSending is false; the images are cleared only after an ok response  *)
(* and are otherwise the ones the call was started with.                 *)
C30_SendAlwaysCleansUp ==
  SendFinished =>
    /\ \A k \in 1..Len(processingProjects) : processingProjects[k].id # processingId
    /\ ~isSending
    /\ fetchOutcome \in {"networkError", "notOk", "ok"}
    /\ clientImages # sentImages => (fetchOutcome = "ok" /\ clientImages = <<>>)
    /\ fetchOutcome # "ok" => clientImages = sentImages

C30_Witness ==
  /\ SendFinished
  /\ sends = 2
  /\ fetchOutcome = "notOk"
  /\ Len(clientImages) = 2
  /\ clientImages = sentImages
  /\ processingProjects = <<>>
  /\ ~isSending

(* ------------------------------------------------------------------ *)
(* Claims about the store and the project names                         *)
(* ------------------------------------------------------------------ *)
ProjectOfImage(s, imageId) == {im.projectID : im \in {x \in s.images : x.id = imageId}}

(* C24: after deleting projects, the store holds no image of a deleted   *)
(* project and no person of such an image, the lookups of a deleted      *)
(* project are empty, and the rows of every other project are the ones   *)
(* that were there before.                                               *)
C24_DeleteCascades ==
  /\ \A id \in delDeleted :
       /\ getImagesByProject(delStore, id) = {}
       /\ \A pe \in delStore.people : ProjectOfImage(delBefore, pe.imageID) # {id}
       /\ \A p \in delStore.projects : p.id # id
  /\ delStore.projects = {p \in delBefore.projects : p.id \notin delDeleted}
  /\ delStore.images = {im \in delBefore.images : im.projectID \notin delDeleted}
  /\ delStore.people =
       {pe \in delBefore.people :
          ProjectOfImage(delBefore, pe.imageID) \cap delDeleted = {}}

C24_Witness ==
  /\ delDeleted = {1}
  /\ getImagesByProject(delBefore, 1) # {}
  /\ \E pe \in delBefore.people : ProjectOfImage(delBefore, pe.imageID) = {1}
  /\ getImagesByProject(delStore, 1) = {}
  /\ getImagesByProject(delStore, 2) # {}
  /\ delStore.people # {}

(* C25: two requests never get the same project name, so they never      *)
(* write the same file names.                                            *)
C25_ProjectNamesUnique ==
  nameOut.called =>
    /\ nameOut.names[1] # nameOut.names[2]
    /\ \A i \in Indices : FileName(nameOut.names[1], i) # FileName(nameOut.names[2], i)

====
